---- MODULE Spec2Model ----
(***************************************************************************)
(* The ads-insights extraction pipeline of fb-auth: the async script that  *)
(* fetches a token, resolves ad accounts and ads, fans out the insights    *)
(* requests over period x breakdowns x ad and loads the records into       *)
(* BigQuery tables created on first use; and the routes of the express     *)
(* server behind the session gate.                                         *)
(***************************************************************************)
EXTENDS Integers, Sequences, FiniteSets, Bags, TLC

\* ------------------------------------------------------------------ bounds
MaxAccounts == 2    \* longest account or business listing the remote returns
MaxAds == 2         \* number of ads the remote holds and lists in one run
MaxRecords == 4     \* cap on |ads| * |periods| * |breakdowns| of one run
MaxDims == 2        \* longest breakdown combination the naming is applied to
MaxInFlight == 2    \* requests the server is handling at one time

\* --------------------------------------------------------------- constants
AD_ACCOUNT_SOURCES == [personal |-> "personal", business |-> "business"]

PERIODS == [daily |-> "daily", lifetime |-> "lifetime"]

\* Object.keys(PERIODS), in insertion order
PERIOD_KEYS == <<"daily", "lifetime">>

BREAKDOWNS == << <<"age", "gender">>, <<"country", "region">> >>

\* the dimension names BREAKDOWNS is made of
DIMENSIONS == <<"age", "country", "gender", "region">>

USER_ID == "10235767919166237"

\* Object.keys(zodSchemas.metrics): the fixed metric list
METRICS == <<"impressions", "clicks", "spend">>

\* config.projectId
PROJECT_ID == "project"

\* the concurrency limit of paralellize
Limit == 2

Min(a, b) == IF a < b THEN a ELSE b

\* ------------------------------------------------------------ JS values
Undefined == [kind |-> "undefined"]
Pending == [kind |-> "pending"]

List(items) == [kind |-> "list", items |-> items]

IsList(v) == v.kind = "list"

RECURSIVE FlatItems(_)
FlatItems(s) ==
    IF s = <<>> THEN <<>>
    ELSE (IF IsList(Head(s)) THEN Head(s).items ELSE <<Head(s)>>)
         \o FlatItems(Tail(s))

\* Array.prototype.flat(): one level
Flat(l) == List(FlatItems(l.items))

\* Array.prototype.join(sep)
RECURSIVE Join(_, _)
Join(s, sep) ==
    IF s = <<>> THEN ""
    ELSE IF Len(s) = 1 THEN s[1]
    ELSE s[1] \o sep \o Join(Tail(s), sep)

\* the {id} destructuring of a callback argument
IdOf(v) == IF v.kind = "obj" THEN v.id ELSE "undefined"

Range(s) == {s[i] : i \in 1..Len(s)}

RECURSIVE SeqOfSet(_)
SeqOfSet(S) ==
    IF S = {} THEN <<>>
    ELSE LET m == CHOOSE x \in S : \A y \in S : x <= y
         IN <<m>> \o SeqOfSet(S \ {m})

\* ids the remote can hand out
AccountIds == {"act_" \o ToString(i) : i \in 1..MaxAccounts}
BusinessIds == {"biz_" \o ToString(i) : i \in 1..MaxAccounts}
AdIds == {"ad_" \o ToString(i) : i \in 1..MaxAds}

Account(i) == [kind |-> "obj", id |-> "act_" \o ToString(i)]
Business(i) == [kind |-> "obj", id |-> "biz_" \o ToString(i)]
Ad(i, acc) == [kind |-> "obj", id |-> "ad_" \o ToString(i), account_id |-> acc]

\* listings the remote may answer with: its first n accounts or businesses
AccountListings == {List([k \in 1..n |-> Account(k)]) : n \in 0..MaxAccounts}
BusinessListings == {List([k \in 1..n |-> Business(k)]) : n \in 0..MaxAccounts}

\* the accounts of one business: the first n accounts, or the one account
\* numbered like the business
OwnedListings(biz) ==
    AccountListings
    \cup {List(<<Account(k)>>) : k \in {j \in 1..MaxAccounts : Business(j).id = biz}}

\* the ads of one account: the first n ads, or the one ad numbered like the
\* account (so two accounts may list the same ad id, or different ones)
AdListings(acc) ==
    {List([k \in 1..n |-> Ad(k, acc)]) : n \in 0..MaxAds}
    \cup {List(<<Ad(k, acc)>>) :
            k \in {j \in 1..Min(MaxAds, MaxAccounts) : Account(j).id = acc}}

ErrorKinds == {"auth", "exhausted"}


\* ------------------------------------------------------------------ state
VARIABLES
    source,              \* the argument of fetchAdAccounts
    periods,             \* the period keys the fan-out maps over
    breakdownsCfg,       \* the breakdown combinations the fan-out maps over
    schemas,             \* table names zodSchemas.schemas has an entry for
    pc,                  \* the await the main async function is parked at
    error,               \* "none", or what the main async function threw
    token,
    callLog,             \* fetchGraphApi calls issued, in order
    rejections,          \* the error kinds fetchGraphApi calls failed with
    businesses,
    units, started, inflight, results, discarded,  \* the running paralellize
    adAccounts, ads, brokenDownInsights,
    tables,              \* the tables cache of the load loop
    task,                \* per record: where its load callback is parked
    gtLog,               \* bigQuery.getTable calls issued, in order
    insLog,              \* table.insert calls issued
    rows,                \* the bag of rows the warehouse holds
    naming,              \* tableName applied on its own: arguments and names
    firstLoad,           \* whether the load was run again, and the rows before
    expired,             \* the validity window of the token fetched has passed
    sessions,            \* the session store of the server: session -> user
    reqs,                \* the bag of requests parked at an await of a handler
    lastResponse         \* the response the server sent last

web == <<sessions, reqs, lastResponse>>

config == <<source, periods, breakdownsCfg, schemas>>

\* what a run of the script reads and never writes
inputs == <<config, naming, firstLoad, expired, web>>
par == <<units, started, inflight, results, discarded>>
locals == <<token, businesses, adAccounts, ads, brokenDownInsights>>
wh == <<tables, task, gtLog, insLog, rows>>
script == <<pc, error, callLog, rejections, par, locals, wh>>
vars == <<inputs, script>>

\* ----------------------------------------------------------- pure helpers
\* the table name with the breakdown names put in a fixed order first
tableName_Normalized(period, breakdowns) ==
    LET sorted == SelectSeq(DIMENSIONS, LAMBDA d : d \in Range(breakdowns))
    IN "facebook_ads_insights_" \o period \o "_" \o Join(sorted, "_")

\* the table name with the separator after the period left out
tableName_NoSeparator(period, breakdowns) ==
    LET breakdownName == Join(breakdowns, "_")
    IN "facebook_ads_insights_" \o period \o breakdownName

\* lines 88-89
tableName(period, breakdowns) ==
    LET breakdownName == Join(breakdowns, "_")
    IN "facebook_ads_insights_" \o period \o "_" \o breakdownName

\* line 91
fullyQualifiedTableName(name) ==
    PROJECT_ID \o ".facebook_ads_insights." \o name

AllTableNames == {tableName(p, b) : p \in Range(PERIOD_KEYS), b \in Range(BREAKDOWNS)}

\* zodSchemas.schemas[tableName]
SchemaOf(name) ==
    IF name \in schemas THEN [kind |-> "schema", table |-> name] ELSE Undefined

\* one call of the function createFetchGraphApi returns
fetchGraphApi(path, params) == [path |-> path, params |-> params]

\* the payload with time_increment set whatever the period
fetchAdInsights_AlwaysIncrement(adId, period, breakdowns) ==
    fetchGraphApi("/" \o adId \o "/insights",
                  [fields |-> METRICS, breakdowns |-> breakdowns, time_increment |-> 1])

\* lines 49-59
fetchAdInsights(adId, period, breakdowns) ==
    LET payload == [fields |-> METRICS, breakdowns |-> breakdowns]
    IN fetchGraphApi("/" \o adId \o "/insights",
                     IF period = PERIODS.daily
                     THEN [fields |-> payload.fields, breakdowns |-> payload.breakdowns,
                           time_increment |-> 1]
                     ELSE payload)

\* what the remote answers to an insights call
InsightsPayload(call) == [kind |-> "obj", request |-> call]

\* line 43: one unit per business
OwnedUnit(b) ==
    [call |-> fetchGraphApi("/" \o IdOf(b) \o "/owned_ad_accounts", Undefined),
     id |-> IdOf(b)]

\* line 64: one unit per ad account
AdsUnit(acc) ==
    [call |-> fetchGraphApi("/" \o IdOf(acc) \o "/ads",
                            [fields |-> <<"ad_id", "account_id">>]),
     id |-> IdOf(acc)]

\* lines 68-78: one unit per (period, breakdowns, ad), in the order the
\* nested maps visit them
InsightsUnit(period, breakdowns, ad) ==
    [call |-> fetchAdInsights(ad.id, period, breakdowns),
     period |-> period, breakdowns |-> breakdowns, ad |-> ad]

InsightsUnits(ps, bs, as) ==
    LET P == Len(ps)
        B == Len(bs)
        N == Len(as)
    IN [k \in 1..(P * B * N) |->
          InsightsUnit(ps[((k - 1) \div (B * N)) + 1],
                       bs[(((k - 1) \div N) % B) + 1],
                       as[((k - 1) % N) + 1])]

\* the record with the ad id written where the account id belongs
InsightRecord_WrongAccount(u, insights) ==
    [kind |-> "obj",
     user_id |-> USER_ID,
     ad_account_id |-> u.ad.id,
     ad_id |-> u.ad.id,
     period |-> u.period,
     breakdowns |-> u.breakdowns,
     insights |-> insights]

\* lines 71-78: the record the fan-out callback returns
InsightRecord(u, insights) ==
    [kind |-> "obj",
     user_id |-> USER_ID,
     ad_account_id |-> u.ad.account_id,
     ad_id |-> u.ad.id,
     period |-> u.period,
     breakdowns |-> u.breakdowns,
     insights |-> insights]

\* the value the three nested paralellize calls resolve to
NestedResults(P, B, N, res) ==
    List([pi \in 1..P |->
        List([bi \in 1..B |->
            List([ai \in 1..N |-> res[((pi - 1) * B + (bi - 1)) * N + ai]])])])

RECURSIVE SumLen(_)
SumLen(s) ==
    IF s = <<>> THEN 0
    ELSE (IF IsList(Head(s)) THEN Len(Head(s).items) ELSE 0) + SumLen(Tail(s))


\* ------------------------------------------------------------------- Init
\* The script at its first await.
ScriptStart ==
    /\ pc = "fetchToken"
    /\ error = "none"
    /\ token = Undefined
    /\ callLog = <<>>
    /\ rejections = {}
    /\ businesses = Undefined
    /\ units = <<>>
    /\ started = 0
    /\ inflight = {}
    /\ results = <<>>
    /\ discarded = 0
    /\ adAccounts = Undefined
    /\ ads = Undefined
    /\ brokenDownInsights = Undefined
    /\ tables = <<>>
    /\ task = <<>>
    /\ gtLog = <<>>
    /\ insLog = {}
    /\ rows = EmptyBag

NoNaming == [period |-> "none", a |-> <<>>, b |-> <<>>, out |-> <<>>]

NoFirstLoad == [done |-> FALSE, rows |-> EmptyBag]

\* ------------------------------------------------------------- the server
\* session cookies and access tokens the requests come with
Sessions == {"s1", "s2"}

\* the access tokens a client can come back with from the login dialog:
\* the first client has two accounts, the second one, which the first has too
AccessTokens(s) == IF s = "s1" THEN {"tokA", "tokB"} ELSE {"tokB"}

\* req.query.access_token, req.query.accounts: "" when missing
Missing == ""

NoUser == Undefined

\* the user metadata storeToken resolves to: the owner of the token
UserOf(access_token) ==
    [kind |-> "obj", id |-> IF access_token = "tokA" THEN "u1" ELSE "u2"]

NoResponse ==
    [route |-> "none", arg |-> Missing, user |-> NoUser, at |-> "none",
     ok |-> TRUE, status |-> 0, location |-> ""]

\* the server started: empty session store, nothing in flight
WebStart ==
    /\ sessions = [s \in Sessions |-> NoUser]
    /\ reqs = EmptyBag
    /\ lastResponse = NoResponse

\* fetchAdAccounts is run for each source value (the script passes personal),
\* the fan-out for the leading part of PERIODS and of BREAKDOWNS, the load
\* with every schema registered or one missing. The server is idle.
Init ==
    /\ source \in {"personal", "business", "page"}
    /\ periods \in {<<"daily">>, PERIOD_KEYS}
    /\ breakdownsCfg \in {<<BREAKDOWNS[1]>>, BREAKDOWNS}
    /\ schemas \in {AllTableNames,
                    AllTableNames \ {tableName("daily", BREAKDOWNS[1])}}
    /\ ScriptStart
    /\ naming = NoNaming
    /\ firstLoad = NoFirstLoad
    /\ expired = FALSE
    /\ WebStart

\* ------------------------------------------------------------ paralellize
\* paralellize(items, fn): starts the units in order, at most Limit of them
\* in flight; the call itself starts the first ones
paralellize(us) ==
    LET n == Min(Len(us), Limit)
    IN /\ units' = us
       /\ started' = n
       /\ inflight' = 1..n
       /\ results' = [i \in 1..Len(us) |-> Pending]
       /\ discarded' = discarded
       /\ callLog' = callLog \o [k \in 1..n |-> us[k].call]

\* a unit's callback resolved with v: keep the result and start the next
\* unit; after a failure of the batch the result is dropped and nothing
\* more is started
ParResolve(i, v) ==
    IF error = "none"
    THEN /\ results' = [results EXCEPT ![i] = v]
         /\ discarded' = discarded
         /\ units' = units
         /\ IF started < Len(units)
            THEN /\ started' = started + 1
                 /\ inflight' = (inflight \ {i}) \cup {started + 1}
                 /\ callLog' = Append(callLog, units[started + 1].call)
            ELSE /\ started' = started
                 /\ inflight' = inflight \ {i}
                 /\ callLog' = callLog
    ELSE /\ discarded' = discarded + 1
         /\ inflight' = inflight \ {i}
         /\ UNCHANGED <<units, started, results, callLog>>

\* a unit's callback rejected: the batch rejects with the first failure
ParReject(i) ==
    /\ inflight' = inflight \ {i}
    /\ UNCHANGED <<units, started, results, discarded, callLog>>

AllResolved ==
    /\ started = Len(units)
    /\ inflight = {}
    /\ \A i \in 1..Len(units) : results[i] # Pending

\* ------------------------------------------------------------ main script
\* the rejection caught and ignored
Throw_Swallow(kind) == error' = error

\* a rejected await of the main async function: the function throws
Throw(kind) == error' = IF error = "none" THEN kind ELSE error

\* the switch with the default case falling into the personal one
fetchAdAccounts_Fallthrough(src) ==
    IF src = AD_ACCOUNT_SOURCES.business
    THEN /\ callLog' = Append(callLog, fetchGraphApi("/me/businesses", Undefined))
         /\ pc' = "businesses"
         /\ error' = error
    ELSE /\ callLog' = Append(callLog, fetchGraphApi("/me/adaccounts", Undefined))
         /\ pc' = "adaccounts"
         /\ error' = error

\* lines 37-47
fetchAdAccounts(src) ==
    IF src = AD_ACCOUNT_SOURCES.personal
    THEN /\ callLog' = Append(callLog, fetchGraphApi("/me/adaccounts", Undefined))
         /\ pc' = "adaccounts"
         /\ error' = error
    ELSE IF src = AD_ACCOUNT_SOURCES.business
    THEN /\ callLog' = Append(callLog, fetchGraphApi("/me/businesses", Undefined))
         /\ pc' = "businesses"
         /\ error' = error
    ELSE /\ callLog' = callLog
         /\ pc' = "fetchAdAccounts"
         /\ Throw("unknown_source")

\* lines 34-35, 61: the token arrives and account resolution starts
FetchTokenResolve ==
    /\ pc = "fetchToken"
    /\ error = "none"
    /\ token' = [access_token |-> "tok"]
    /\ fetchAdAccounts(source)
    /\ UNCHANGED <<inputs, rejections, par, businesses, adAccounts, ads,
                   brokenDownInsights, wh>>

\* the missing token ignored: account resolution starts without one
FetchTokenReject_Proceed ==
    /\ pc = "fetchToken"
    /\ error = "none"
    /\ fetchAdAccounts(source)
    /\ UNCHANGED <<inputs, rejections, par, locals, wh>>

\* line 34: no token stored for the user
FetchTokenReject ==
    /\ pc = "fetchToken"
    /\ error = "none"
    /\ Throw("token_not_found")
    /\ UNCHANGED <<inputs, pc, callLog, rejections, par, locals, wh>>

\* line 64: the ad listing calls, one per element of adAccounts
StartAds(accs) ==
    /\ adAccounts' = accs
    /\ paralellize([k \in 1..Len(accs.items) |-> AdsUnit(accs.items[k])])
    /\ pc' = "ads"

\* lines 40, 61-64: /me/adaccounts answered
AdAccountsResolve(resp) ==
    /\ pc = "adaccounts"
    /\ error = "none"
    /\ StartAds(resp)
    /\ UNCHANGED <<inputs, error, rejections, token, businesses, ads,
                   brokenDownInsights, wh>>

\* lines 40-42, 61: the single call of account resolution failed
SingleCallReject(kind) ==
    /\ pc \in {"adaccounts", "businesses"}
    /\ error = "none"
    /\ rejections' = rejections \cup {kind}
    /\ Throw(kind)
    /\ UNCHANGED <<inputs, pc, callLog, par, locals, wh>>

\* lines 42-43: /me/businesses answered, one owned_ad_accounts call each
BusinessesResolve(resp) ==
    /\ pc = "businesses"
    /\ error = "none"
    /\ businesses' = resp
    /\ paralellize([k \in 1..Len(resp.items) |-> OwnedUnit(resp.items[k])])
    /\ pc' = "owned"
    /\ UNCHANGED <<inputs, error, rejections, token, adAccounts, ads,
                   brokenDownInsights, wh>>

\* line 43: one owned_ad_accounts call answered
OwnedResolve(i) ==
    /\ pc = "owned"
    /\ i \in inflight
    /\ \E resp \in OwnedListings(units[i].id) : ParResolve(i, resp)
    /\ UNCHANGED <<inputs, pc, error, rejections, locals, wh>>

\* lines 43, 61, 64: fetchAdAccounts returns what paralellize resolved to
OwnedDone ==
    /\ pc = "owned"
    /\ error = "none"
    /\ AllResolved
    /\ StartAds(List(results))
    /\ UNCHANGED <<inputs, error, rejections, token, businesses, ads,
                   brokenDownInsights, wh>>

\* line 64: one ads call answered
AdsResolve(i) ==
    /\ pc = "ads"
    /\ i \in inflight
    /\ units[i].id # "undefined"
    /\ \E resp \in AdListings(units[i].id) :
        /\ SumLen(results) + Len(resp.items) <= MaxAds
        /\ (SumLen(results) + Len(resp.items)) * Len(periods) * Len(breakdownsCfg)
              <= MaxRecords
        /\ ParResolve(i, resp)
    /\ UNCHANGED <<inputs, pc, error, rejections, locals, wh>>

\* lines 64, 67-80: the ads are flattened and the fan-out starts
AdsDone ==
    /\ pc = "ads"
    /\ error = "none"
    /\ AllResolved
    /\ ads' = Flat(List(results))
    /\ paralellize(InsightsUnits(periods, breakdownsCfg, ads'.items))
    /\ pc' = "insights"
    /\ UNCHANGED <<inputs, error, rejections, token, businesses, adAccounts,
                   brokenDownInsights, wh>>

\* lines 70-78: one insights call answered, its callback builds the record
InsightsResolve(i) ==
    /\ pc = "insights"
    /\ i \in inflight
    /\ ParResolve(i, InsightRecord(units[i], InsightsPayload(units[i].call)))
    /\ UNCHANGED <<inputs, pc, error, rejections, locals, wh>>

\* lines 43, 64, 67-80: a call of a batch failed, the awaited paralellize
\* rejects and the main function throws
UnitReject(i, kind) ==
    /\ pc \in {"owned", "ads", "insights"}
    /\ i \in inflight
    /\ ParReject(i)
    /\ rejections' = rejections \cup {kind}
    /\ Throw(kind)
    /\ UNCHANGED <<inputs, pc, locals, wh>>


\* ------------------------------------------------------------- load stage
NoTable == [name |-> "none", obj |-> 0]

\* !tables[tableName]
Cached(cache, name) == name \in DOMAIN cache

\* lines 87-89
TableNameOf(data) == tableName(data.period, data.breakdowns)

\* line 93: the call bigQuery.getTable(fullyQualifiedTableName, schema)
GetTableCall(i, data) ==
    [by |-> i,
     name |-> fullyQualifiedTableName(TableNameOf(data)),
     schema |-> SchemaOf(TableNameOf(data))]

\* line 97: the call table.insert(data)
InsertCall(i, table, data) == [by |-> i, table |-> table, data |-> data]

\* lines 86-93: the synchronous part of the callbacks, run by map in record
\* order: the getTable calls it issues
RECURSIVE GetTableCalls(_, _, _)
GetTableCalls(recs, i, cache) ==
    IF i > Len(recs) THEN <<>>
    ELSE (IF ~Cached(cache, TableNameOf(recs[i]))
          THEN <<GetTableCall(i, recs[i])>> ELSE <<>>)
         \o GetTableCalls(recs, i + 1, cache)

\* lines 86-97: and the insert calls of the callbacks that found the table
RECURSIVE InsertCalls(_, _, _)
InsertCalls(recs, i, cache) ==
    IF i > Len(recs) THEN <<>>
    ELSE (IF Cached(cache, TableNameOf(recs[i]))
          THEN <<InsertCall(i, cache[TableNameOf(recs[i])], recs[i])>> ELSE <<>>)
         \o InsertCalls(recs, i + 1, cache)

\* lines 85-98: Promise.all(brokenDownInsights.map(...)) runs every callback
\* up to its first await
StartLoad(recs) ==
    LET cache == <<>>
    IN /\ tables' = cache
       /\ gtLog' = gtLog \o GetTableCalls(recs, 1, cache)
       /\ insLog' = insLog \cup Range(InsertCalls(recs, 1, cache))
       /\ task' = [i \in 1..Len(recs) |->
                     IF Cached(cache, TableNameOf(recs[i]))
                     THEN [at |-> "insert", table |-> cache[TableNameOf(recs[i])]]
                     ELSE [at |-> "getTable", table |-> NoTable]]
       /\ rows' = rows

\* the fan-out settled (as with Promise.allSettled): the records of the
\* calls that succeeded are loaded
FanoutDone_Partial ==
    /\ pc = "insights"
    /\ started = Len(units) \/ error # "none"
    /\ inflight = {}
    /\ brokenDownInsights' = List(SelectSeq(results, LAMBDA r : r # Pending))
    /\ StartLoad(brokenDownInsights'.items)
    /\ pc' = "load"
    /\ UNCHANGED <<inputs, error, callLog, rejections, par, token, businesses,
                   adAccounts, ads>>

\* lines 67-98: the fan-out resolved; its result is flattened and loaded
FanoutDone ==
    /\ pc = "insights"
    /\ error = "none"
    /\ AllResolved
    /\ brokenDownInsights' =
          Flat(Flat(Flat(Flat(NestedResults(Len(periods), Len(breakdownsCfg),
                                            Len(ads.items), results)))))
    /\ StartLoad(brokenDownInsights'.items)
    /\ pc' = "load"
    /\ UNCHANGED <<inputs, error, callLog, rejections, par, token, businesses,
                   adAccounts, ads>>

\* the handle object a getTable call may resolve to: one made by this call,
\* or the one already handed out for the table
Handles(i) ==
    LET data == brokenDownInsights.items[i]
        name == TableNameOf(data)
    IN {[name |-> fullyQualifiedTableName(name), obj |-> i]}
       \cup (IF Cached(tables, name) THEN {tables[name]} ELSE {})

\* lines 93-97: getTable resolved; the callback stores the handle, reads the
\* cache back and issues the insert
GetTableResolve(i, h) ==
    /\ pc = "load"
    /\ i \in DOMAIN task
    /\ task[i].at = "getTable"
    /\ LET data == brokenDownInsights.items[i]
           name == TableNameOf(data)
       IN /\ tables' = (name :> h) @@ tables
          /\ LET table == tables'[name]
             IN /\ insLog' = insLog \cup {InsertCall(i, table, data)}
                /\ task' = [task EXCEPT ![i] = [at |-> "insert", table |-> table]]
    /\ UNCHANGED <<inputs, pc, error, callLog, rejections, par, locals, gtLog, rows>>

\* lines 93, 97: a warehouse call of a callback rejected; Promise.all
\* rejects and the main function throws; the other callbacks go on unless
\* the unhandled rejection ends the process, where the run just stops
WarehouseReject(i) ==
    /\ pc = "load"
    /\ i \in DOMAIN task
    /\ task[i].at \in {"getTable", "insert"}
    /\ task' = [task EXCEPT ![i] = [at |-> "failed", table |-> NoTable]]
    /\ Throw("warehouse")
    /\ UNCHANGED <<inputs, pc, callLog, rejections, par, locals, tables, gtLog,
                   insLog, rows>>

\* the insert as an upsert: a record whose row the table holds already is
\* not stored again
InsertResolve_Upsert(i) ==
    /\ pc = "load"
    /\ i \in DOMAIN task
    /\ task[i].at = "insert"
    /\ LET row == [table |-> task[i].table.name, handle |-> task[i].table, rec |-> i]
       IN rows' = IF \E r \in BagToSet(rows) : r.table = row.table /\ r.rec = row.rec
                  THEN rows ELSE rows (+) SetToBag({row})
    /\ task' = [task EXCEPT ![i] = [at |-> "done", table |-> task[i].table]]
    /\ UNCHANGED <<inputs, pc, error, callLog, rejections, par, locals, tables,
                   gtLog, insLog>>

\* line 97: the insert was done by the warehouse
InsertResolve(i) ==
    /\ pc = "load"
    /\ i \in DOMAIN task
    /\ task[i].at = "insert"
    /\ rows' = rows (+) SetToBag({[table |-> task[i].table.name,
                                     handle |-> task[i].table, rec |-> i]})
    /\ task' = [task EXCEPT ![i] = [at |-> "done", table |-> task[i].table]]
    /\ UNCHANGED <<inputs, pc, error, callLog, rejections, par, locals, tables,
                   gtLog, insLog>>

\* the load ending when every callback settled, failed ones included
LoadDone_Settled ==
    /\ pc = "load"
    /\ \A i \in DOMAIN task : task[i].at \in {"done", "failed"}
    /\ pc' = "done"
    /\ UNCHANGED <<inputs, error, callLog, rejections, par, locals, wh>>

\* lines 86-99: every callback finished, the script ends
LoadDone ==
    /\ pc = "load"
    /\ error = "none"
    /\ \A i \in DOMAIN task : task[i].at = "done"
    /\ pc' = "done"
    /\ UNCHANGED <<inputs, error, callLog, rejections, par, locals, wh>>

\* ------------------------------------------------------------------- Next
Next ==
    \/ FetchTokenResolve
    \/ FetchTokenReject
    \/ \E resp \in AccountListings : AdAccountsResolve(resp)
    \/ \E kind \in ErrorKinds : SingleCallReject(kind)
    \/ \E resp \in BusinessListings : BusinessesResolve(resp)
    \/ \E i \in inflight : OwnedResolve(i)
    \/ OwnedDone
    \/ \E i \in inflight : AdsResolve(i)
    \/ AdsDone
    \/ \E i \in inflight : InsightsResolve(i)
    \/ \E i \in inflight, kind \in ErrorKinds : UnitReject(i, kind)
    \/ FanoutDone
    \/ \E i \in DOMAIN task : \E h \in Handles(i) : GetTableResolve(i, h)
    \/ \E i \in DOMAIN task : WarehouseReject(i)
    \/ \E i \in DOMAIN task : InsertResolve(i)
    \/ LoadDone

Spec == Init /\ [][Next]_vars

\* ------------------------------------------------- tableName on its own
\* breakdown combinations: up to MaxDims different dimension names, in any
\* order
BreakdownSeqs ==
    {s \in UNION {[1..n -> Range(DIMENSIONS)] : n \in 1..MaxDims} :
        \A i, j \in 1..Len(s) : i # j => s[i] # s[j]}

\* the script as configured, not yet run
ScriptIdle ==
    /\ source = AD_ACCOUNT_SOURCES.personal
    /\ periods = PERIOD_KEYS
    /\ breakdownsCfg = BREAKDOWNS
    /\ schemas = AllTableNames
    /\ ScriptStart

InitNames ==
    /\ ScriptIdle
    /\ firstLoad = NoFirstLoad
    /\ expired = FALSE
    /\ WebStart
    /\ \E p \in Range(PERIOD_KEYS), a, b \in BreakdownSeqs :
          naming = [period |-> p, a |-> a, b |-> b, out |-> <<>>]

\* lines 87-89 applied to the two breakdown combinations
NameTables ==
    /\ naming.out = <<>>
    /\ naming' = [naming EXCEPT !.out = <<tableName(naming.period, naming.a),
                                         tableName(naming.period, naming.b)>>]
    /\ UNCHANGED <<config, firstLoad, expired, web, script>>

NextNames == NameTables

SpecNames == InitNames /\ [][NextNames]_vars

\* ------------------------------------------------------ the load run again
\* one period, all sources, one or both breakdown combinations
InitReload ==
    /\ source \in {"personal", "business", "page"}
    /\ periods = <<"daily">>
    /\ breakdownsCfg \in {<<BREAKDOWNS[1]>>, BREAKDOWNS}
    /\ schemas = AllTableNames
    /\ ScriptStart
    /\ naming = NoNaming
    /\ firstLoad = NoFirstLoad
    /\ expired = FALSE
    /\ WebStart

\* lines 85-98 run a second time over the same records, against the
\* warehouse as the first load left it: a new tables cache, new callbacks
Reload ==
    /\ pc = "done"
    /\ ~firstLoad.done
    /\ firstLoad' = [done |-> TRUE, rows |-> rows]
    /\ StartLoad(brokenDownInsights.items)
    /\ pc' = "load"
    /\ UNCHANGED <<config, naming, expired, web, error, callLog, rejections,
                   par, locals>>

NextReload == Next \/ Reload

SpecReload == InitReload /\ [][NextReload]_vars

\* ---------------------------------------------------- the server's routes
InitServer ==
    /\ ScriptIdle
    /\ naming = NoNaming
    /\ firstLoad = NoFirstLoad
    /\ expired = FALSE
    /\ WebStart

\* a request being handled: user is req.session.user as the handler read it
\* when the request came in, tokenFor the user id it passed to fetchToken
Request(s, route, arg, user, at, tokenFor) ==
    [session |-> s, route |-> route, arg |-> arg, user |-> user,
     at |-> at, tokenFor |-> tokenFor]

\* the handler parks at an await
Park(r) ==
    /\ BagCardinality(reqs) < MaxInFlight
    /\ reqs' = reqs (+) SetToBag({r})
    /\ UNCHANGED <<sessions, lastResponse>>

\* res.status(..).send(..), res.redirect(..), res.render(..)
Respond(r, ok, status, location) ==
    lastResponse' = [route |-> r.route, arg |-> r.arg, user |-> r.user,
                     at |-> r.at, ok |-> ok, status |-> status,
                     location |-> location]

\* lines 49-57: GET /auth/callback
GetAuthCallback(s, access_token) ==
    /\ IF access_token = Missing
       THEN /\ Respond(Request(s, "/auth/callback", access_token, NoUser, "arrive", "none"),
                       TRUE, 400, "")
            /\ UNCHANGED <<sessions, reqs>>
       ELSE Park(Request(s, "/auth/callback", access_token, NoUser, "exchange", "none"))
    /\ UNCHANGED <<config, naming, firstLoad, expired, script>>

\* lines 57-59: the exchange resolved, storeToken is called
ExchangeResolve(r) ==
    /\ r.at = "exchange"
    /\ reqs' = (reqs (-) SetToBag({r})) (+) SetToBag({[r EXCEPT !.at = "store"]})
    /\ UNCHANGED <<sessions, lastResponse>>
    /\ UNCHANGED <<config, naming, firstLoad, expired, script>>

\* the session written when the exchange resolved, before the store did
StoreResolve_Early(r) ==
    /\ r.at \in {"exchange", "store"}
    /\ reqs' = reqs (-) SetToBag({r})
    /\ sessions' = [sessions EXCEPT ![r.session] = UserOf(r.arg)]
    /\ Respond(r, TRUE, 302, "/ad-accounts")
    /\ UNCHANGED <<config, naming, firstLoad, expired, script>>

\* lines 59-65: storeToken resolved with the user; the session gets it and
\* is saved as the redirect ends the response
StoreResolve(r) ==
    /\ r.at = "store"
    /\ reqs' = reqs (-) SetToBag({r})
    /\ sessions' = [sessions EXCEPT ![r.session] = UserOf(r.arg)]
    /\ Respond(r, TRUE, 302, "/ad-accounts")
    /\ UNCHANGED <<config, naming, firstLoad, expired, script>>

\* lines 66-69: the exchange or the store rejected
AuthReject(r) ==
    /\ r.at \in {"exchange", "store"}
    /\ reqs' = reqs (-) SetToBag({r})
    /\ Respond(r, FALSE, 500, "")
    /\ UNCHANGED sessions
    /\ UNCHANGED <<config, naming, firstLoad, expired, script>>

\* the handler without its first lines: the token is fetched whatever the
\* session holds
GetAdAccounts_NoGate(s) ==
    /\ Park(Request(s, "/ad-accounts", Missing, sessions[s], "fetchToken",
                    IdOf(sessions[s])))
    /\ UNCHANGED <<config, naming, firstLoad, expired, script>>

\* lines 72-78: GET /ad-accounts
GetAdAccounts(s) ==
    /\ IF sessions[s] = NoUser
       THEN /\ Respond(Request(s, "/ad-accounts", Missing, sessions[s], "arrive", "none"),
                       TRUE, 302, "/")
            /\ UNCHANGED <<sessions, reqs>>
       ELSE Park(Request(s, "/ad-accounts", Missing, sessions[s], "fetchToken",
                         sessions[s].id))
    /\ UNCHANGED <<config, naming, firstLoad, expired, script>>

\* lines 95-106: GET /ads-insights
GetAdsInsights(s, accounts) ==
    /\ IF sessions[s] = NoUser
       THEN /\ Respond(Request(s, "/ads-insights", accounts, sessions[s], "arrive", "none"),
                       TRUE, 302, "/")
            /\ UNCHANGED <<sessions, reqs>>
       ELSE IF accounts = Missing
       THEN /\ Respond(Request(s, "/ads-insights", accounts, sessions[s], "arrive", "none"),
                       TRUE, 302, "/ad-accounts")
            /\ UNCHANGED <<sessions, reqs>>
       ELSE Park(Request(s, "/ads-insights", accounts, sessions[s], "fetchToken",
                         sessions[s].id))
    /\ UNCHANGED <<config, naming, firstLoad, expired, script>>

\* lines 78-83, 106-110: the token arrived, the ads-API calls are made
TokenFetched(r) ==
    /\ r.at = "fetchToken"
    /\ reqs' = (reqs (-) SetToBag({r})) (+) SetToBag({[r EXCEPT !.at = "remote"]})
    /\ UNCHANGED <<sessions, lastResponse>>
    /\ UNCHANGED <<config, naming, firstLoad, expired, script>>

\* lines 85-88, 115-119: the ads-API calls resolved, the page is rendered
RemoteResolve(r) ==
    /\ r.at = "remote"
    /\ reqs' = reqs (-) SetToBag({r})
    /\ Respond(r, TRUE, 200, "")
    /\ UNCHANGED sessions
    /\ UNCHANGED <<config, naming, firstLoad, expired, script>>

\* lines 89-92, 120-123: the token fetch or an ads-API call rejected
PageReject(r) ==
    /\ r.at \in {"fetchToken", "remote"}
    /\ reqs' = reqs (-) SetToBag({r})
    /\ Respond(r, FALSE, 500, "")
    /\ UNCHANGED sessions
    /\ UNCHANGED <<config, naming, firstLoad, expired, script>>

NextServer ==
    \/ \E s \in Sessions : \E t \in AccessTokens(s) \cup {Missing} :
          GetAuthCallback(s, t)
    \/ \E r \in BagToSet(reqs) : ExchangeResolve(r)
    \/ \E r \in BagToSet(reqs) : StoreResolve(r)
    \/ \E r \in BagToSet(reqs) : AuthReject(r)
    \/ \E s \in Sessions : GetAdAccounts(s)
    \/ \E s \in Sessions, a \in {Missing, "act_1"} : GetAdsInsights(s, a)
    \/ \E r \in BagToSet(reqs) : TokenFetched(r)
    \/ \E r \in BagToSet(reqs) : RemoteResolve(r)
    \/ \E r \in BagToSet(reqs) : PageReject(r)

SpecServer == InitServer /\ [][NextServer]_vars

\* ---------------------------------------------------- the token's lifetime
InitClock ==
    /\ source \in {"personal", "business", "page"}
    /\ periods = <<"daily">>
    /\ breakdownsCfg = <<BREAKDOWNS[1]>>
    /\ schemas = AllTableNames
    /\ ScriptStart
    /\ naming = NoNaming
    /\ firstLoad = NoFirstLoad
    /\ expired = FALSE
    /\ WebStart

\* time passes expiresAt of the token the script fetched at line 34; the
\* script goes on with the function bound to it at line 35
TokenExpires ==
    /\ token # Undefined
    /\ ~expired
    /\ expired' = TRUE
    /\ UNCHANGED <<config, naming, firstLoad, web, script>>

NextClock == Next \/ TokenExpires

SpecClock == InitClock /\ [][NextClock]_vars


\* ----------------------------------------------------------------- claims
Records == IF brokenDownInsights = Undefined THEN <<>> ELSE brokenDownInsights.items

\* getTable calls issued for the table a record is routed to
GetTableCallsFor(name) ==
    {k \in 1..Len(gtLog) : gtLog[k].name = fullyQualifiedTableName(name)}

InsertCallsFor(name) ==
    {c \in insLog : c.table.name = fullyQualifiedTableName(name)}

\* calls in flight that a map-over-collection stage started
InFlightCalls ==
    Cardinality(inflight)
    + Cardinality({i \in DOMAIN task : task[i].at \in {"getTable", "insert"}})

Key(r) == <<r.ad_id, r.period, r.breakdowns>>

\* C1: every table name that records of the load are routed to gets exactly
\* one bigQuery.getTable call during the load, however many records target it.
C1_SingleFlight ==
    pc \in {"load", "done"} =>
        \A i \in DOMAIN task :
            Cardinality(GetTableCallsFor(TableNameOf(Records[i]))) = 1

\* C2: a handle once stored in the tables cache is never replaced by another
\* one, and all inserts into one table go through one and the same handle.
C2_FirstResolutionWins ==
    [][/\ \A n \in DOMAIN tables : n \in DOMAIN tables' /\ tables'[n] = tables[n]
       /\ \A c1, c2 \in insLog' : c1.table.name = c2.table.name => c1.table = c2.table
      ]_vars

\* C3: when every insights call succeeded the fan-out holds n*p*b records and no
\* two of them have the same (ad id, period, breakdowns) key.
C3_FanoutMatrix ==
    brokenDownInsights # Undefined =>
        /\ Len(Records) = Len(ads.items) * Len(periods) * Len(breakdownsCfg)
        /\ \A i, j \in 1..Len(Records) : i # j => Key(Records[i]) # Key(Records[j])

\* C4: the calls in flight that the map stages started never number more than
\* the concurrency limit.
C4_BoundedConcurrency == InFlightCalls <= Limit

\* C5: once an insights request of the fan-out failed, the run stays failed in
\* the fan-out: no record list reaches the load, no getTable or insert call is
\* issued and no row is stored, also when in-flight insights calls complete
\* after the failure.
FanoutFailed == pc = "insights" /\ error # "none"

C5_FailFastFanout ==
    [][/\ FanoutFailed => FanoutFailed'
       /\ FanoutFailed' =>
            /\ brokenDownInsights' = Undefined
            /\ task' = <<>> /\ gtLog' = <<>> /\ insLog' = {} /\ rows' = EmptyBag
      ]_vars

\* C5 witness: the fan-out failed, part of the results had arrived and a call
\* that was in flight completed after the failure.
C5_Witness ==
    /\ FanoutFailed
    /\ discarded > 0
    /\ inflight = {}
    /\ \E i \in 1..Len(units) : results[i] # Pending

NameTable(prefix) ==
    {<<"daily", <<"age", "gender">>, prefix \o "daily_age_gender">>,
     <<"lifetime", <<"age", "gender">>, prefix \o "lifetime_age_gender">>,
     <<"daily", <<"country", "region">>, prefix \o "daily_country_region">>,
     <<"lifetime", <<"country", "region">>, prefix \o "lifetime_country_region">>}

Naming(prefix) ==
    /\ \A k \in 1..Len(gtLog) :
          \E e \in NameTable(prefix) :
              /\ e[1] = Records[gtLog[k].by].period
              /\ e[2] = Records[gtLog[k].by].breakdowns
              /\ gtLog[k].name = PROJECT_ID \o ".facebook_ads_insights." \o e[3]
    /\ \A i \in DOMAIN task :
          task[i].at \in {"insert", "done"} =>
              \E e \in NameTable(prefix) :
                  /\ e[1] = Records[i].period
                  /\ e[2] = Records[i].breakdowns
                  /\ e[3] \in DOMAIN tables
                  /\ task[i].table.name = PROJECT_ID \o ".facebook_ads_insights." \o e[3]
    /\ (pc = "done" /\ periods = <<"daily", "lifetime">>
          /\ breakdownsCfg = << <<"age", "gender">> >> /\ Len(Records) > 0)
        => DOMAIN tables = {prefix \o "daily_age_gender", prefix \o "lifetime_age_gender"}

C8_UnknownSchemaFails ==
    pc \in {"load", "done"} =>
        \A i \in DOMAIN task :
            TableNameOf(Records[i]) \notin schemas =>
                /\ error = "unknown_schema"
                /\ GetTableCallsFor(TableNameOf(Records[i])) = {}
                /\ InsertCallsFor(TableNameOf(Records[i])) = {}

\* the calls of account resolution, in the order issued
OwnedPath(id) == "/" \o id \o "/owned_ad_accounts"

ResolutionPaths ==
    {"/me/adaccounts", "/me/businesses"}
    \cup {OwnedPath(id) : id \in BusinessIds \cup {"undefined"}}

ResolutionCalls ==
    LET sel == SelectSeq(callLog, LAMBDA c : c.path \in ResolutionPaths)
    IN [k \in 1..Len(sel) |-> sel[k].path]

CountOf(seq, x) == Cardinality({k \in 1..Len(seq) : seq[k] = x})

\* C9: a source other than personal and business throws the unknown-source
\* error and calls nothing; personal makes the one call /me/adaccounts;
\* business makes one /me/businesses call and then, once it is answered, one
\* owned_ad_accounts call for each business returned (and for no other).
C9_AccountResolution ==
    /\ source \notin {"personal", "business"} =>
          /\ callLog = <<>>
          /\ token # Undefined => error = "unknown_source"
    /\ source = "personal" =>
          ResolutionCalls = IF token = Undefined THEN <<>> ELSE <<"/me/adaccounts">>
    /\ source = "business" =>
          /\ token = Undefined => ResolutionCalls = <<>>
          /\ token # Undefined =>
                /\ Len(ResolutionCalls) >= 1
                /\ ResolutionCalls[1] = "/me/businesses"
                /\ CountOf(ResolutionCalls, "/me/businesses") = 1
                /\ CountOf(ResolutionCalls, "/me/adaccounts") = 0
          /\ businesses = Undefined => Len(ResolutionCalls) <= 1
          /\ businesses # Undefined =>
                /\ \A k \in 2..Len(ResolutionCalls) :
                      \E j \in 1..Len(businesses.items) :
                          ResolutionCalls[k] = OwnedPath(businesses.items[j].id)
                /\ \A j \in 1..Len(businesses.items) :
                      /\ CountOf(ResolutionCalls, OwnedPath(businesses.items[j].id)) <= 1
                      /\ adAccounts # Undefined =>
                            CountOf(ResolutionCalls, OwnedPath(businesses.items[j].id)) = 1

\* C9 witness: business resolution over two businesses completed.
C9_Witness ==
    /\ source = "business"
    /\ businesses # Undefined
    /\ Len(businesses.items) = 2
    /\ adAccounts # Undefined
    /\ Len(ResolutionCalls) = 3

\* C10: business resolution over two businesses that own one ad account each
\* returns two elements, each of them an ad account and not a list.
C10_BusinessAccountsFlat ==
    (/\ source = "business"
     /\ adAccounts # Undefined
     /\ Len(businesses.items) = 2
     /\ Len(FlatItems(adAccounts.items)) = 2
     /\ \A k \in 1..Len(adAccounts.items) :
           IsList(adAccounts.items[k]) => Len(adAccounts.items[k].items) = 1)
    => /\ Len(adAccounts.items) = 2
       /\ \A k \in 1..Len(adAccounts.items) : adAccounts.items[k].kind = "obj"

\* the insights calls issued, in order
InsightsPaths == {"/" \o id \o "/insights" : id \in AdIds}

InsightsCalls == SelectSeq(callLog, LAMBDA c : c.path \in InsightsPaths)

\* C12: no two insights calls of a run are for the same (ad id, period,
\* breakdowns) triple, also when the ad listing returns one ad id under two
\* accounts. (A call is its path, which holds the ad id, and its parameters,
\* which hold the breakdowns and tell the period.)
C12_NoDuplicateRequests ==
    \A i, j \in 1..Len(InsightsCalls) :
        i # j => InsightsCalls[i] # InsightsCalls[j]

\* the calls of each stage
AccountPaths == ResolutionPaths

AdsPaths == {"/" \o id \o "/ads" : id \in AccountIds \cup {"undefined"}}

CallsStarted(paths) == \E k \in 1..Len(callLog) : callLog[k].path \in paths

\* calls of a stage that were issued and have not completed
CallsInFlight(paths) ==
    Cardinality({i \in inflight : units[i].call.path \in paths})
    + (IF pc \in {"adaccounts", "businesses"} /\ error = "none"
          /\ callLog[Len(callLog)].path \in paths
       THEN 1 ELSE 0)

WarehouseStarted == gtLog # <<>> \/ insLog # {}

\* C14: a remote call is issued only once the token is there; an ad listing
\* call only when no account listing call is in flight; an insights call only
\* when no ad listing call is in flight; a warehouse call only when no
\* insights call is in flight.
C14_StageOrdering ==
    /\ callLog # <<>> => token # Undefined
    /\ CallsStarted(AdsPaths) => CallsInFlight(AccountPaths) = 0
    /\ CallsStarted(InsightsPaths) =>
          CallsInFlight(AccountPaths) = 0 /\ CallsInFlight(AdsPaths) = 0
    /\ WarehouseStarted =>
          /\ CallsInFlight(AccountPaths) = 0
          /\ CallsInFlight(AdsPaths) = 0
          /\ CallsInFlight(InsightsPaths) = 0

\* C14 witness: a run through all four stages: account resolution, ad
\* listing, fan-out and load all made calls and the run is done.
C14_Witness ==
    /\ pc = "done"
    /\ CallsStarted(AccountPaths)
    /\ CallsStarted(AdsPaths)
    /\ CallsStarted(InsightsPaths)
    /\ BagCardinality(rows) >= 2

\* C16: every insights call carries the metric list as fields and the
\* breakdowns of its unit; a daily call has time_increment 1, a call of any
\* other period has no time_increment parameter; and the insights calls
\* issued are the calls of the units started.
InsightsCallOK(u) ==
    LET c == u.call
    IN /\ c.path = "/" \o u.ad.id \o "/insights"
       /\ c.params.fields = <<"impressions", "clicks", "spend">>
       /\ c.params.breakdowns = u.breakdowns
       /\ u.period = "daily" =>
             /\ DOMAIN c.params = {"fields", "breakdowns", "time_increment"}
             /\ c.params.time_increment = 1
       /\ u.period # "daily" => DOMAIN c.params = {"fields", "breakdowns"}

C16_InsightsRequestShape ==
    pc \in {"insights", "load", "done"} =>
        /\ Len(InsightsCalls) = started
        /\ \A k \in 1..started :
              InsightsCallOK(units[k]) /\ InsightsCalls[k] = units[k].call

\* C16 witness: the fan-out over both periods issued a daily and a lifetime
\* call.
C16_Witness ==
    /\ pc = "insights"
    /\ \E k \in 1..started : units[k].period = "daily"
    /\ \E k \in 1..started : units[k].period = "lifetime"

\* the table of a record, from the written-out names
ExpectedTable(r) ==
    LET e == CHOOSE x \in NameTable("facebook_ads_insights_") :
                 x[1] = r.period /\ x[2] = r.breakdowns
    IN PROJECT_ID \o ".facebook_ads_insights." \o e[3]

\* C17: when the load is done it is without error, every record was inserted
\* exactly once, by an insert call carrying that record, into the table named
\* after the record's own period and breakdowns, and the rows stored are as
\* many as the records.
C17_RoutingCompleteness ==
    pc = "done" =>
        /\ error = "none"
        /\ BagCardinality(rows) = Len(Records)
        /\ Cardinality(insLog) = Len(Records)
        /\ \A i \in 1..Len(Records) :
              /\ \E c \in insLog :
                    /\ c.by = i /\ c.data = Records[i]
                    /\ c.table.name = ExpectedTable(Records[i])
              /\ \E r \in BagToSet(rows) :
                    /\ r.rec = i
                    /\ CopiesIn(r, rows) = 1
                    /\ r.table = ExpectedTable(Records[i])
                    /\ \A r2 \in BagToSet(rows) : r2.rec = i => r2 = r

\* C17 witness: a load of four records over two tables is done.
C17_Witness ==
    /\ pc = "done"
    /\ Len(Records) = 4
    /\ Cardinality({r.table : r \in BagToSet(rows)}) = 2

\* the records built so far: those of the fan-out under way and those handed
\* to the load
RecordsBuilt ==
    Range(Records)
    \cup (IF pc = "insights"
          THEN {results[i] : i \in {k \in 1..Len(results) : results[k] # Pending}}
          ELSE {})

\* C18: every record carries the user id, and the ad id, period and
\* breakdowns of the very insights call whose answer it wraps, and the account
\* id of an ad of the listing with that ad id.
C18_SelfDescribingRecords ==
    \A r \in RecordsBuilt :
        LET c == r.insights.request
        IN /\ r.user_id = USER_ID
           /\ c.path = "/" \o r.ad_id \o "/insights"
           /\ c.params.breakdowns = r.breakdowns
           /\ (r.period = "daily") <=> ("time_increment" \in DOMAIN c.params)
           /\ \E k \in 1..Len(ads.items) :
                 /\ ads.items[k].id = r.ad_id
                 /\ ads.items[k].account_id = r.ad_account_id

\* C18 witness: records of two ads of two accounts, built by calls that
\* completed in another order than they were issued.
C18_Witness ==
    /\ pc = "insights"
    /\ Cardinality({r.ad_account_id : r \in RecordsBuilt}) = 2
    /\ \E i, j \in 1..Len(results) :
          i < j /\ results[i] = Pending /\ results[j] # Pending

\* C13: the same period and breakdown combination give the same table name,
\* and two different orderings of the same dimension names give different
\* table names.
C13_OrderSignificant ==
    naming.out # <<>> =>
        /\ naming.a = naming.b => naming.out[1] = naming.out[2]
        /\ (naming.a # naming.b /\ Len(naming.a) = Len(naming.b)
              /\ Range(naming.a) = Range(naming.b))
           => naming.out[1] # naming.out[2]

\* C13 witness: the names of [age, gender] and [gender, age] were computed.
C13_Witness ==
    /\ naming.a = <<"age", "gender">>
    /\ naming.b = <<"gender", "age">>
    /\ naming.out = <<"facebook_ads_insights_" \o naming.period \o "_age_gender",
                      "facebook_ads_insights_" \o naming.period \o "_gender_age">>

\* rows of a bag that are in table t
RowsIn(t, bag) ==
    BagCardinality([r \in {x \in BagToSet(bag) : x.table = t} |-> bag[r]])

TablesOf(bag) == {r.table : r \in BagToSet(bag)}

\* C11: no step removes a row from the warehouse; and when the load run a
\* second time over the same records is done, it is without error and every
\* table holds exactly twice the rows the first load left in it.
C11_AppendOnlyLoad ==
    [][/\ rows \sqsubseteq rows'
       /\ (pc' = "done" /\ firstLoad'.done) =>
             /\ error' = "none"
             /\ TablesOf(rows') = TablesOf(firstLoad'.rows)
             /\ \A t \in TablesOf(rows') :
                   RowsIn(t, rows') = 2 * RowsIn(t, firstLoad'.rows)
      ]_vars

\* C11 witness: two records were loaded twice into their table.
C11_Witness ==
    /\ pc = "done"
    /\ firstLoad.done
    /\ BagCardinality(firstLoad.rows) = 2
    /\ BagCardinality(rows) = 4

\* C15: once the validity window of the token fetched has passed, no remote
\* call is issued. (The script holds one token for the whole run and nothing
\* refreshes it.)
C15_TokenValidity ==
    [][expired => callLog' = callLog]_vars

\* the routes behind the session gate
Gated(route) == route \in {"/ad-accounts", "/ads-insights"}

\* requests that this step parked at an await
Parked(r) == CopiesIn(r, reqs') > CopiesIn(r, reqs)

\* requests that this step answered
Answered(r) == CopiesIn(r, reqs') < CopiesIn(r, reqs)

\* C19: a request to /ad-accounts or /ads-insights that comes in a session
\* holding no user fetches no token and calls nothing, and is answered by a
\* redirect to /; every token fetch of these routes is for the id of the user
\* the session of the request held when the request came in.
C19_SessionGate ==
    [][/\ \A r \in BagToSet(reqs') :
             Gated(r.route) =>
                 /\ r.user # NoUser
                 /\ r.tokenFor = IdOf(r.user)
                 /\ (Parked(r) /\ r.at = "fetchToken") =>
                        /\ sessions[r.session] # NoUser
                        /\ r.user = sessions[r.session]
       /\ (Gated(lastResponse'.route) /\ lastResponse'.user = NoUser) =>
             /\ lastResponse'.at = "arrive"
             /\ lastResponse'.status = 302
             /\ lastResponse'.location = "/"
      ]_vars

\* C19 witness: a request of the second session is at its ads-API calls with
\* the token of that session's user, and a request in a session without a
\* user was just redirected to /.
C19_Witness ==
    /\ \E r \in BagToSet(reqs) :
          r.at = "remote" /\ r.session = "s2" /\ r.tokenFor = "u2"
    /\ sessions["s1"] = NoUser
    /\ lastResponse.route = "/ads-insights"
    /\ lastResponse.user = NoUser
    /\ lastResponse.status = 302
    /\ lastResponse.location = "/"

\* C20: the user of a session changes only in the step where a callback of
\* that session, whose exchange had resolved, has its store resolve, and that
\* step answers with the redirect to /ad-accounts; a callback without
\* access_token is answered 400 before any exchange, one whose exchange or
\* store rejects is answered 500; a step answering 400 or 500 leaves every
\* session as it was, and /ad-accounts in a session without user redirects
\* to /.
C20_AuthCallback ==
    [][/\ \A s \in Sessions :
             sessions'[s] # sessions[s] =>
                 /\ \E r \in BagToSet(reqs) :
                       /\ r.session = s /\ r.route = "/auth/callback"
                       /\ r.at = "store" /\ Answered(r)
                 /\ sessions'[s] # NoUser
                 /\ lastResponse'.route = "/auth/callback"
                 /\ lastResponse'.ok
                 /\ lastResponse'.status = 302
                 /\ lastResponse'.location = "/ad-accounts"
       /\ \A r \in BagToSet(reqs') :
             r.route = "/auth/callback" => r.arg # Missing
       /\ lastResponse'.route = "/auth/callback" =>
             /\ (lastResponse'.arg = Missing) <=> (lastResponse'.status = 400)
             /\ lastResponse'.status = 400 => lastResponse'.at = "arrive"
             /\ (~lastResponse'.ok) <=> (lastResponse'.status = 500)
             /\ lastResponse'.status = 500 => lastResponse'.at \in {"exchange", "store"}
             /\ lastResponse'.status \in {400, 500} => sessions' = sessions
       /\ (lastResponse'.route = "/ad-accounts" /\ lastResponse'.user = NoUser)
             => lastResponse'.status = 302 /\ lastResponse'.location = "/"
      ]_vars

\* C20 witness: a callback whose store rejected was answered 500 and no
\* session holds a user.
C20_Witness ==
    /\ lastResponse.route = "/auth/callback"
    /\ lastResponse.at = "store"
    /\ lastResponse.status = 500
    /\ \A s \in Sessions : sessions[s] = NoUser

====
